---- MODULE Spec2Model ----
(***************************************************************************)
(* Model of the validated type Guess of guessing_game_v2 (struct Guess,    *)
(* Guess::new, Guess::value) driven by callers that each own one binding   *)
(* `guess`, as the loop body of guessing_game does.  A call is two steps,  *)
(* its invocation and its return, so that the calls of different callers   *)
(* overlap.                                                                *)
(***************************************************************************)
EXTENDS Integers, Sequences, FiniteSets, TLC

\* ------------------------------------------------------------------ bounds
\* Total number of operations (calls and drops) the callers make in a run.
MaxCalls == 4

\* ------------------------------------------------------- program constants
\* `value < 1 || value > 100`
GuessMin == 1
GuessMax == 100
\* the parameter of Guess::new is an i32
I32Max == 2147483647
I32Min == -I32Max - 1

\* The text of the io::Error that Guess::new builds.
GuessRangeMessage == "Guess must be between 1 and 100."

\* The callers: independent owners of one `guess` binding each.
Callers == {"c1", "c2"}

\* The i32 arguments tried: the two ends of each of the three intervals
\* that the range test cuts i32 into, [i32::MIN, 0], [1, 100], [101, i32::MAX].
RawValues == {I32Min, GuessMin - 1, GuessMin, GuessMax, GuessMax + 1, I32Max}

VARIABLES
    guess,      \* guess[c]: the binding of caller c, <<>> or <<[value |-> v]>>
    pc,         \* pc[c]: "idle", "new" (inside Guess::new), "value", "aborted"
    arg,        \* arg[c]: <<raw>> while c is inside Guess::new, else <<>>
    epoch,      \* epoch[c]: how many instances c has been given (identity)
    history     \* the completed operations, in the order they completed

guessVars == <<guess, pc, arg, epoch, history>>

\* The other programs of the repository.  Each is a program of its own
\* (its own main), so each has its own specification further down; while
\* one program runs the variables of the others stay as they start.
VARIABLES
    phase,      \* guessing_game_v2 main: "off", "v2", "v1", "done", "aborted"
    secret,     \* secret_number of the game being played
    round,      \* what the latest loop iteration read and did
    rects,      \* methods: the rectangles at hand and the latest method result
    word,       \* slices: the argument of first_word and its result
    big,        \* generics: the list given to a largest function and its result
    reads,      \* errors: the file outcomes and what each reader returned
    line        \* errors: the argument of last_char_of_first_line and its result

gameVars == <<phase, secret, round>>
fnVars == <<rects, word, big, reads, line>>
vars == <<guessVars, gameVars, fnVars>>

\* The value of a variable whose program is not the one running.
Off == <<>>

GameOff == phase = "off" /\ secret = 0 /\ round = Off
GuessOff ==
    /\ guess = [c \in Callers |-> <<>>]
    /\ pc = [c \in Callers |-> "idle"]
    /\ arg = [c \in Callers |-> <<>>]
    /\ epoch = [c \in Callers |-> 0]
    /\ history = <<>>

\* ------------------------------------------------------------ io::Error
\* io::Error::other(msg): an error of kind Other that holds the message.
IoErrorOther(msg) == [kind |-> "Other", message |-> msg]

\* Result<Guess, io::Error>; "Panic" stands for a call that unwinds
\* instead of returning.
Ok(g) == [tag |-> "Ok", ok |-> <<g>>, err |-> <<>>]
Err(e) == [tag |-> "Err", ok |-> <<>>, err |-> <<e>>]
Panic == [tag |-> "Panic", ok |-> <<>>, err |-> <<>>]

\* ------------------------------------------------------------ struct Guess
\* pub struct Guess { value: i32 }
Guess(v) == [value |-> v]

\* Variants of Guess::new with one plausible slip each.
\* `value >= 100`: the upper limit taken as exclusive.
GuessNewExclusiveMax(value) ==
    IF value < GuessMin \/ value >= GuessMax
    THEN Err(IoErrorOther(GuessRangeMessage))
    ELSE Ok(Guess(value))

\* the upper half of the range test left out
GuessNewNoUpperBound(value) ==
    IF value < GuessMin
    THEN Err(IoErrorOther(GuessRangeMessage))
    ELSE Ok(Guess(value))

\* the lower half of the range test left out (the u32 habit of main)
GuessNewNoLowerBound(value) ==
    IF value > GuessMax
    THEN Err(IoErrorOther(GuessRangeMessage))
    ELSE Ok(Guess(value))

\* io::Error::new(ErrorKind::InvalidInput, ..) in place of io::Error::other
GuessNewInvalidInput(value) ==
    IF value < GuessMin \/ value > GuessMax
    THEN Err([kind |-> "InvalidInput", message |-> GuessRangeMessage])
    ELSE Ok(Guess(value))

\* panic!("Guess must be between 1 and 100.") in place of return Err(..)
GuessNewPanics(value) ==
    IF value < GuessMin \/ value > GuessMax
    THEN Panic
    ELSE Ok(Guess(value))

\* a uniqueness check against the instances that are live: the result
\* depends on more than the parameter
GuessNewStateful(value) ==
    IF \/ value < GuessMin \/ value > GuessMax
       \/ \E c \in Callers : guess[c] = <<Guess(value)>>
    THEN Err(IoErrorOther(GuessRangeMessage))
    ELSE Ok(Guess(value))

\* Guess::new: the range test, then the error value or the instance.  It
\* reads nothing but its parameter.
GuessNew(value) ==
    IF value < GuessMin \/ value > GuessMax
    THEN Err(IoErrorOther(GuessRangeMessage))
    ELSE Ok(Guess(value))

\* value() reading the most recently created instance (a shared `last`
\* slot) instead of self
GuessValueOfLatest(self) ==
    LET made == {i \in DOMAIN history :
                    /\ history[i].op = "new"
                    /\ history[i].ret # <<>>
                    /\ history[i].ret[1].tag = "Ok"}
    IN  IF made = {} THEN self.value
        ELSE history[CHOOSE i \in made : \A k \in made : k <= i].ret[1].ok[1].value

\* Guess::value(&self): the wrapped i32.
GuessValue(self) == self.value

\* --------------------------------------------------------------- callers
Pending == {c \in Callers : pc[c] \in {"new", "value"}}

\* Operations begun so far (completed ones are in history).
Begun == Len(history) + Cardinality(Pending)

\* A completed operation.  raw: the argument of Guess::new; inst: which of
\* the caller's instances it concerns (0: none); ret: <<what it returned>>,
\* <<>> when it returned nothing.
Event(c, op, raw, inst, ret) ==
    [caller |-> c, op |-> op, raw |-> raw, inst |-> inst, ret |-> ret]

\* The shape of the state: each binding is empty or holds one Guess whose
\* field is an i32.
TypeOK ==
    /\ \A c \in Callers :
          /\ guess[c] = <<>> \/ (Len(guess[c]) = 1 /\ guess[c][1].value \in I32Min..I32Max)
          /\ pc[c] \in {"idle", "new", "value", "aborted"}
          /\ arg[c] = <<>> \/ (Len(arg[c]) = 1 /\ arg[c][1] \in RawValues)
          /\ (pc[c] = "new") = (arg[c] # <<>>)
          /\ epoch[c] \in 0..MaxCalls
    /\ Len(history) <= MaxCalls
    /\ Begun <= MaxCalls

Init ==
    /\ guess = [c \in Callers |-> <<>>]
    /\ pc = [c \in Callers |-> "idle"]
    /\ arg = [c \in Callers |-> <<>>]
    /\ epoch = [c \in Callers |-> 0]
    /\ history = <<>>
    /\ GameOff
    /\ rects = Off /\ word = Off /\ big = Off /\ reads = Off /\ line = Off

\* c calls Guess::new(raw).
CallNew(c, raw) ==
    /\ pc[c] = "idle"
    /\ Begun < MaxCalls
    /\ pc' = [pc EXCEPT ![c] = "new"]
    /\ arg' = [arg EXCEPT ![c] = <<raw>>]
    /\ UNCHANGED <<guess, epoch, history>>
    /\ UNCHANGED <<gameVars, fnVars>>

\* Guess::new storing the instance in one slot that every caller's binding
\* refers to, instead of returning an owned value
RetNewShared(c) ==
    /\ pc[c] = "new"
    /\ LET raw == arg[c][1]
           r == GuessNew(raw)
       IN  IF r.tag = "Ok"
           THEN /\ guess' = [d \in Callers |-> IF d = c \/ guess[d] # <<>>
                                                THEN r.ok ELSE <<>>]
                /\ epoch' = [epoch EXCEPT ![c] = @ + 1]
                /\ history' = Append(history,
                                 Event(c, "new", <<raw>>, epoch[c] + 1, <<r>>))
           ELSE /\ history' = Append(history, Event(c, "new", <<raw>>, 0, <<r>>))
                /\ UNCHANGED <<guess, epoch>>
    /\ pc' = [pc EXCEPT ![c] = "idle"]
    /\ arg' = [arg EXCEPT ![c] = <<>>]
    /\ UNCHANGED <<gameVars, fnVars>>

\* Guess::new runs and c's `match` takes the result: Ok(guess) is bound
\* (the instance held before goes out of scope), Err(e) leaves c with what
\* it had, and a panic would unwind c.
RetNew(c) ==
    /\ pc[c] = "new"
    /\ LET raw == arg[c][1]
           r == GuessNew(raw)
       IN  CASE r.tag = "Ok" ->
                  /\ guess' = [guess EXCEPT ![c] = r.ok]
                  /\ epoch' = [epoch EXCEPT ![c] = @ + 1]
                  /\ pc' = [pc EXCEPT ![c] = "idle"]
                  /\ history' = Append(history,
                                   Event(c, "new", <<raw>>, epoch[c] + 1, <<r>>))
             [] r.tag = "Err" ->
                  /\ pc' = [pc EXCEPT ![c] = "idle"]
                  /\ history' = Append(history, Event(c, "new", <<raw>>, 0, <<r>>))
                  /\ UNCHANGED <<guess, epoch>>
             [] OTHER ->
                  /\ guess' = [guess EXCEPT ![c] = <<>>]
                  /\ pc' = [pc EXCEPT ![c] = "aborted"]
                  /\ history' = Append(history, Event(c, "new", <<raw>>, 0, <<>>))
                  /\ UNCHANGED epoch
    /\ arg' = [arg EXCEPT ![c] = <<>>]
    /\ UNCHANGED <<gameVars, fnVars>>

\* c calls guess.value() on the instance it holds.
CallValue(c) ==
    /\ pc[c] = "idle"
    /\ guess[c] # <<>>
    /\ Begun < MaxCalls
    /\ pc' = [pc EXCEPT ![c] = "value"]
    /\ UNCHANGED <<guess, arg, epoch, history>>
    /\ UNCHANGED <<gameVars, fnVars>>

\* value(&mut self) that counts the read in the field it returns
RetValueMutating(c) ==
    /\ pc[c] = "value"
    /\ pc' = [pc EXCEPT ![c] = "idle"]
    /\ history' = Append(history,
                     Event(c, "value", <<>>, epoch[c], <<GuessValue(guess[c][1])>>))
    /\ guess' = [guess EXCEPT ![c] = <<Guess(guess[c][1].value + 1)>>]
    /\ UNCHANGED <<arg, epoch>>
    /\ UNCHANGED <<gameVars, fnVars>>

\* Guess::value returns; &self is a shared borrow, nothing is written.
RetValue(c) ==
    /\ pc[c] = "value"
    /\ pc' = [pc EXCEPT ![c] = "idle"]
    /\ history' = Append(history,
                     Event(c, "value", <<>>, epoch[c], <<GuessValue(guess[c][1])>>))
    /\ UNCHANGED <<guess, arg, epoch>>
    /\ UNCHANGED <<gameVars, fnVars>>

\* The binding of c goes out of scope (the end of a loop iteration).
DropGuess(c) ==
    /\ pc[c] = "idle"
    /\ guess[c] # <<>>
    /\ Begun < MaxCalls
    /\ guess' = [guess EXCEPT ![c] = <<>>]
    /\ history' = Append(history, Event(c, "drop", <<>>, epoch[c], <<>>))
    /\ UNCHANGED <<pc, arg, epoch>>
    /\ UNCHANGED <<gameVars, fnVars>>

Next ==
    \/ \E c \in Callers, raw \in RawValues : CallNew(c, raw)
    \/ \E c \in Callers : RetNew(c)
    \/ \E c \in Callers : CallValue(c)
    \/ \E c \in Callers : RetValue(c)
    \/ \E c \in Callers : DropGuess(c)

Spec == Init /\ [][Next]_vars

\* ================================================================ claims
InRange(v) == 1 <= v /\ v <= 100

\* The indices of the completed Guess::new calls, and of the value() calls.
NewCalls == {i \in DOMAIN history : history[i].op = "new"}
ValueCalls == {i \in DOMAIN history : history[i].op = "value"}

\* The value() calls made on the instance that the call history[i] returned.
ReadsOf(i) ==
    {j \in ValueCalls : /\ j > i
                        /\ history[j].caller = history[i].caller
                        /\ history[j].inst = history[i].inst}

Returned(i, tag) == history[i].ret # <<>> /\ history[i].ret[1].tag = tag

\* C1: for every v with 1 <= v <= 100, both limits included, Guess::new(v)
\* returns Ok with an instance that wraps v, and every value() on that
\* instance returns v.
C1_InRangeCreateSucceeds ==
    \A i \in NewCalls :
        InRange(history[i].raw[1]) =>
            /\ Returned(i, "Ok")
            /\ history[i].ret[1].ok = <<[value |-> history[i].raw[1]]>>
            /\ \A j \in ReadsOf(i) : history[j].ret = <<history[i].raw[1]>>

\* Both limits were created and read back.
C1_Witness ==
    /\ \E i \in NewCalls : history[i].raw = <<1>> /\ Returned(i, "Ok")
                           /\ \E j \in ReadsOf(i) : history[j].ret = <<1>>
    /\ \E i \in NewCalls : history[i].raw = <<100>> /\ Returned(i, "Ok")
                           /\ \E j \in ReadsOf(i) : history[j].ret = <<100>>

\* The step in which caller c's pending Guess::new(raw) completes.
NewCompletes(c) == pc[c] = "new" /\ pc'[c] # "new"

\* C2: for every v < 1 or v > 100, Guess::new(v) returns the error and makes
\* no instance: the live instances after the call are those before it.
C2_OutOfRangeCreateFails ==
    [][\A c \in Callers :
          (NewCompletes(c) /\ ~InRange(arg[c][1])) =>
              /\ Len(history') = Len(history) + 1
              /\ history'[Len(history')].caller = c
              /\ history'[Len(history')].raw = arg[c]
              /\ history'[Len(history')].ret # <<>>
              /\ history'[Len(history')].ret[1].tag = "Err"
              /\ history'[Len(history')].ret[1].ok = <<>>
              /\ guess' = guess
              /\ epoch' = epoch]_vars

\* Guess::new(0) and Guess::new(101) both failed while instances were
\* live, and those instances are still there.
C2_Witness ==
    /\ \E i \in NewCalls : history[i].raw = <<0>> /\ Returned(i, "Err")
    /\ \E i \in NewCalls :
          /\ history[i].raw = <<101>> /\ Returned(i, "Err")
          /\ \E k \in NewCalls :
                /\ k < i /\ Returned(k, "Ok")
                /\ history[k].caller = history[i].caller
                /\ guess[history[i].caller] = history[k].ret[1].ok

\* The structured error of the written specification.
OutOfRange(v, min, max) == [kind |-> "OutOfRange", value |-> v, min |-> min, max |-> max]

\* C3 as stated: a failed create returns OutOfRange{value, min: 1, max: 100}
\* with the offending input as data.
C3_ErrorCarriesValueAndBounds ==
    \A i \in NewCalls :
        ~InRange(history[i].raw[1]) =>
            /\ Returned(i, "Err")
            /\ history[i].ret[1].err = <<OutOfRange(history[i].raw[1], 1, 100)>>

\* C3: the error of a failed create is the one io::Error of kind Other with
\* the fixed message "Guess must be between 1 and 100."; it is the same for
\* every out-of-range input and holds neither the input nor the limits as
\* data.
C3_ErrorIsFixedMessage ==
    \A i \in NewCalls :
        ~InRange(history[i].raw[1]) =>
            /\ Returned(i, "Err")
            /\ Len(history[i].ret[1].err) = 1
            /\ history[i].ret[1].err[1].kind = "Other"
            /\ history[i].ret[1].err[1].message = "Guess must be between 1 and 100."
            /\ DOMAIN history[i].ret[1].err[1] = {"kind", "message"}
            /\ \A j \in NewCalls :
                  Returned(j, "Err") => history[j].ret[1].err = history[i].ret[1].err

\* Guess::new(0) and Guess::new(101) failed with one and the same error.
C3_Witness ==
    \E i, j \in NewCalls :
        /\ history[i].raw = <<0>> /\ Returned(i, "Err")
        /\ history[j].raw = <<101>> /\ Returned(j, "Err")
        /\ history[i].ret = history[j].ret

\* C4: in every reachable state every live instance has 1 <= value <= 100
\* and is the instance that a successful Guess::new of that same value
\* returned to its owner.
C4_LiveInstancesValid ==
    \A c \in Callers :
        guess[c] # <<>> =>
            /\ Len(guess[c]) = 1
            /\ InRange(guess[c][1].value)
            /\ \E i \in NewCalls :
                  /\ history[i].caller = c
                  /\ history[i].inst = epoch[c]
                  /\ history[i].raw = <<guess[c][1].value>>
                  /\ Returned(i, "Ok")
                  /\ history[i].ret[1].ok = guess[c]

\* Two instances are live, at the two limits, after a create has failed.
C4_Witness ==
    /\ \E c, d \in Callers : guess[c] = <<[value |-> 1]>> /\ guess[d] = <<[value |-> 100]>>
    /\ \E i \in NewCalls : Returned(i, "Err")

C6_OutOfRangePanics ==
    \A i \in NewCalls :
        ~InRange(history[i].raw[1]) =>
            /\ history[i].ret = <<>>
            /\ pc[history[i].caller] = "aborted"

\* The step in which a value() call of c begins or completes.
ValueStep(c) == (pc[c] = "value") # (pc'[c] = "value")

\* C7: an instance is immutable: as long as a caller holds the same
\* instance its value is the same, whatever any caller does; and value()
\* changes nothing of the state (it only yields its result).
C7_InstancesImmutable ==
    [][/\ \A c \in Callers :
             (guess[c] # <<>> /\ guess'[c] # <<>> /\ epoch'[c] = epoch[c])
                 => guess'[c] = guess[c]
       /\ \A c \in Callers :
             ValueStep(c) =>
                 /\ guess' = guess
                 /\ epoch' = epoch
                 /\ arg' = arg
                 /\ SubSeq(history', 1, Len(history)) = history]_vars

\* An instance was read, another caller created one, and the first was
\* read again and is still held.
C7_Witness ==
    \E i, j \in ValueCalls, k \in NewCalls :
        /\ i < k /\ k < j
        /\ history[i].caller = history[j].caller
        /\ history[i].inst = history[j].inst
        /\ history[k].caller # history[i].caller
        /\ Returned(k, "Ok")
        /\ guess[history[i].caller] # <<>>
        /\ epoch[history[i].caller] = history[i].inst

\* C8: all value() calls on one instance return the same value, whatever
\* happens between them.
C8_GetIsStable ==
    \A i, j \in ValueCalls :
        (history[i].caller = history[j].caller /\ history[i].inst = history[j].inst)
            => history[i].ret = history[j].ret

\* One instance was read twice with a successful create of a different
\* value by another caller in between.
C8_Witness ==
    \E i, j \in ValueCalls, k \in NewCalls :
        /\ i < k /\ k < j
        /\ history[i].caller = history[j].caller
        /\ history[i].inst = history[j].inst
        /\ history[k].caller # history[i].caller
        /\ Returned(k, "Ok")
        /\ history[k].ret[1].ok[1].value # history[i].ret[1]

\* C9: the outcome of Guess::new is a function of its argument alone: any
\* two calls with the same argument, whenever and by whomever they are
\* made, return the same result.
C9_CreateIsPure ==
    \A i, j \in NewCalls :
        history[i].raw = history[j].raw => history[i].ret = history[j].ret

\* The same in-range argument was passed twice, by different callers, the
\* second time while the instance made by the first call was live.
C9_Witness ==
    \E i, j \in NewCalls :
        /\ i < j
        /\ history[i].raw = history[j].raw
        /\ history[i].caller # history[j].caller
        /\ Returned(i, "Ok")
        /\ guess[history[i].caller] = history[i].ret[1].ok
        /\ guess[history[j].caller] = history[i].ret[1].ok

\* ------------------------------------------------ one caller running alone
\* The operations of caller c, in the order it made them.
CallsOf(c) == SelectSeq(history, LAMBDA e : e.caller = c)

\* What one operation does to a caller that runs with no other caller
\* present: st is its own binding and instance count, e.op and e.raw the
\* operation; the result is the new st with the event the operation yields.
SoloStep(st, e) ==
    CASE e.op = "new" ->
           LET r == GuessNew(e.raw[1])
           IN  IF r.tag = "Ok"
               THEN [guess |-> r.ok, epoch |-> st.epoch + 1,
                     event |-> Event(e.caller, "new", e.raw, st.epoch + 1, <<r>>)]
               ELSE IF r.tag = "Err"
               THEN [guess |-> st.guess, epoch |-> st.epoch,
                     event |-> Event(e.caller, "new", e.raw, 0, <<r>>)]
               ELSE [guess |-> <<>>, epoch |-> st.epoch,
                     event |-> Event(e.caller, "new", e.raw, 0, <<>>)]
      [] e.op = "value" ->
           [guess |-> st.guess, epoch |-> st.epoch,
            event |-> Event(e.caller, "value", <<>>, st.epoch,
                            IF st.guess = <<>> THEN <<>>
                            ELSE <<GuessValue(st.guess[1])>>)]
      [] OTHER ->
           [guess |-> <<>>, epoch |-> st.epoch,
            event |-> Event(e.caller, "drop", <<>>, st.epoch, <<>>)]

\* The run of the operations calls[1..n] alone, from an empty binding: the
\* final binding and instance count and the events in order.
RECURSIVE SoloRun(_, _)
SoloRun(calls, n) ==
    IF n = 0
    THEN [guess |-> <<>>, epoch |-> 0, events |-> <<>>]
    ELSE LET before == SoloRun(calls, n - 1)
             after == SoloStep(before, calls[n])
         IN  [guess |-> after.guess, epoch |-> after.epoch,
              events |-> Append(before.events, after.event)]

\* C10: in every interleaving each caller gets what it would get running
\* its calls alone: the results of its calls, in order, and the instance
\* it holds are those of the run of its own calls with no other caller.
C10_CallersIndependent ==
    \A c \in Callers :
        LET mine == CallsOf(c)
            solo == SoloRun(mine, Len(mine))
        IN  /\ solo.events = mine
            /\ solo.guess = guess[c]
            /\ solo.epoch = epoch[c]

\* Both callers hold instances of different values, each has read its own
\* and the calls of the two overlapped: one caller's Guess::new completed
\* between another's Guess::new and that caller's read.
C10_Witness ==
    \E i, k \in NewCalls, j \in ValueCalls :
        /\ i < k /\ k < j
        /\ history[i].caller = history[j].caller
        /\ history[i].inst = history[j].inst
        /\ history[k].caller # history[i].caller
        /\ Returned(i, "Ok") /\ Returned(k, "Ok")
        /\ history[i].ret[1].ok # history[k].ret[1].ok
        /\ guess[history[i].caller] = history[i].ret[1].ok
        /\ guess[history[k].caller] = history[k].ret[1].ok
        /\ \E d \in Callers : pc[d] # "idle"

\* =================================================== guessing_game_v2: main
\* main first plays guessing_game (the game that uses Guess), then its own
\* loop (the first version, with the range check written out).

\* ------------------------------------------------------------------ bounds
\* Longest text typed on one line.
MaxTyped == 3

\* The characters typed: two digits, the minus sign, a letter and a blank
\* give 0, 1, 100, 101, negative numbers, padded numbers and non-numbers.
TypedChars == {"0", "1", "-", "a", " "}

\* All sequences over S of length at most n.
StringsUpTo(S, n) == UNION {[1..k -> S] : k \in 0..n}

\* What read_line appends to the empty `guess`: the typed text with its
\* newline, or nothing at the end of the input.
StdinLines == {t \o <<"\n">> : t \in StringsUpTo(TypedChars, MaxTyped)} \cup {<<>>}

\* rand::thread_rng().gen_range(1..=100), at the values the typed numbers
\* can hit or miss on either side.
Secrets == {1, 10, 100}

\* char::is_whitespace, for the characters at hand.
IsWhitespace(ch) == ch \in {" ", "\n", "\t", "\r"}

\* str::trim: leading and trailing whitespace removed.
RECURSIVE TrimStart(_)
TrimStart(str) ==
    IF str # <<>> /\ IsWhitespace(Head(str)) THEN TrimStart(Tail(str)) ELSE str

RECURSIVE TrimEnd(_)
TrimEnd(str) ==
    IF str # <<>> /\ IsWhitespace(str[Len(str)])
    THEN TrimEnd(SubSeq(str, 1, Len(str) - 1))
    ELSE str

Trim(str) == TrimEnd(TrimStart(str))

\* char::to_digit(10): the digit, or -1 for any other character.
ToDigit(ch) ==
    CASE ch = "0" -> 0 [] ch = "1" -> 1 [] ch = "2" -> 2 [] ch = "3" -> 3
      [] ch = "4" -> 4 [] ch = "5" -> 5 [] ch = "6" -> 6 [] ch = "7" -> 7
      [] ch = "8" -> 8 [] ch = "9" -> 9 [] OTHER -> -1

\* u32::MAX = 10 * 429496729 + 5 and i32::MAX = 10 * 214748364 + 7: the
\* accumulator is tested before each digit is added, as checked_mul and
\* checked_add (checked_sub for a negative number) do.
U32MaxDiv10 == 429496729
U32MaxMod10 == 5
I32MaxDiv10 == 214748364
I32MaxMod10 == 7

ParseOk(n) == [tag |-> "Ok", val |-> n]
ParseErr == [tag |-> "Err", val |-> 0]

\* The digits of str added to acc, most significant first; sign is 1 or -1
\* and the accumulator carries the sign.  div10 and mod10 give the limit on
\* the side of the sign.
RECURSIVE ParseDigits(_, _, _, _, _)
ParseDigits(str, acc, sign, div10, mod10) ==
    IF str = <<>> THEN ParseOk(acc)
    ELSE LET d == ToDigit(Head(str))
             mag == sign * acc
         IN  IF d < 0 THEN ParseErr
             ELSE IF mag > div10 \/ (mag = div10 /\ d > mod10) THEN ParseErr
             ELSE ParseDigits(Tail(str), acc * 10 + sign * d, sign, div10, mod10)

\* str::parse::<u32>: an optional '+', then digits; a '-' is no digit.
ParseU32(str) ==
    IF str = <<>> \/ str = <<"+">> \/ str = <<"-">> THEN ParseErr
    ELSE IF Head(str) = "+"
    THEN ParseDigits(Tail(str), 0, 1, U32MaxDiv10, U32MaxMod10)
    ELSE ParseDigits(str, 0, 1, U32MaxDiv10, U32MaxMod10)

\* str::parse::<i32>: an optional '+' or '-', then digits.
ParseI32(str) ==
    IF str = <<>> \/ str = <<"+">> \/ str = <<"-">> THEN ParseErr
    ELSE IF Head(str) = "+"
    THEN ParseDigits(Tail(str), 0, 1, I32MaxDiv10, I32MaxMod10)
    ELSE IF Head(str) = "-"
    THEN ParseDigits(Tail(str), 0, -1, I32MaxDiv10, I32MaxMod10 + 1)
    ELSE ParseDigits(str, 0, 1, I32MaxDiv10, I32MaxMod10)

\* println!: one printed line, the format text and the values put into it.
Println(text, args) == [text |-> text, args |-> args]

\* What `{}` shows of an io::Error made by io::Error::other: its message.
IoErrorDisplay(e) == e.message

\* What one loop iteration did: the lines it printed, the number it
\* compared with the secret (<<>>: none) and how it left the loop body.
Iteration(printed, compared, exit) ==
    [printed |-> printed, compared |-> compared, exit |-> exit]

\* match guess.cmp(&secret_number): the line printed and whether the loop
\* breaks.
CmpSecret(n, sec, win) ==
    IF n < sec THEN [line |-> Println("Too small!", <<>>), exit |-> "continue"]
    ELSE IF n > sec THEN [line |-> Println("Too big!", <<>>), exit |-> "continue"]
    ELSE [line |-> Println(win, <<>>), exit |-> "break"]

\* The first version without its range check, as the game was before.
V1IterationUnchecked(buf, sec) ==
    LET prompt == <<Println("Please input your guess.", <<>>)>>
        parsed == ParseU32(Trim(buf))
    IN  IF parsed.tag = "Err" THEN Iteration(prompt, <<>>, "continue")
        ELSE LET c == CmpSecret(parsed.val, sec, "You win!")
             IN  Iteration(prompt \o <<Println("You guessed: {guess}", <<parsed.val>>), c.line>>,
                           <<parsed.val>>, c.exit)

\* One iteration of the loop of main (the first version): buf is what
\* read_line put into `guess`.
V1Iteration(buf, sec) ==
    LET prompt == <<Println("Please input your guess.", <<>>)>>
        parsed == ParseU32(Trim(buf))
    IN  IF parsed.tag = "Err" THEN Iteration(prompt, <<>>, "continue")
        ELSE IF parsed.val < 1 \/ parsed.val > 100
        THEN Iteration(prompt \o <<Println("The secret number will be between 1 and 100.", <<>>)>>,
                       <<>>, "continue")
        ELSE LET c == CmpSecret(parsed.val, sec, "You win!")
             IN  Iteration(prompt \o <<Println("You guessed: {guess}", <<parsed.val>>), c.line>>,
                           <<parsed.val>>, c.exit)

\* guessing_game with `Err(_) => continue` for the result of Guess::new
\* too: the error is not shown.
V2IterationSilent(buf, sec) ==
    LET prompt == <<Println("Please input your guess.", <<>>)>>
        parsed == ParseI32(Trim(buf))
    IN  IF parsed.tag = "Err" THEN Iteration(prompt, <<>>, "continue")
        ELSE LET r == GuessNew(parsed.val)
             IN  IF r.tag = "Err" THEN Iteration(prompt, <<>>, "continue")
                 ELSE IF r.tag = "Ok"
                 THEN LET v == GuessValue(r.ok[1])
                          c == CmpSecret(v, sec, "You win!\n")
                      IN  Iteration(prompt \o <<Println("You guessed {}.", <<v>>), c.line>>,
                                    <<v>>, c.exit)
                 ELSE Iteration(prompt, <<>>, "panic")

\* One iteration of the loop of guessing_game (V2).
V2Iteration(buf, sec) ==
    LET prompt == <<Println("Please input your guess.", <<>>)>>
        parsed == ParseI32(Trim(buf))
    IN  IF parsed.tag = "Err" THEN Iteration(prompt, <<>>, "continue")
        ELSE LET r == GuessNew(parsed.val)
             IN  IF r.tag = "Err"
                 THEN Iteration(prompt \o <<Println("{}", <<IoErrorDisplay(r.err[1])>>)>>,
                                <<>>, "continue")
                 ELSE IF r.tag = "Ok"
                 THEN LET v == GuessValue(r.ok[1])
                          c == CmpSecret(v, sec, "You win!\n")
                      IN  Iteration(prompt \o <<Println("You guessed {}.", <<v>>), c.line>>,
                                    <<v>>, c.exit)
                 ELSE Iteration(prompt, <<>>, "panic")

\* The latest iteration: which game, what was read, the secret, what it did.
Round(version, buf, sec, it) ==
    [version |-> version, buf |-> buf, secret |-> sec, printed |-> it.printed,
     compared |-> it.compared, exit |-> it.exit]

\* main calls guessing_game(), which draws its secret number.
GameInit ==
    /\ phase = "v2"
    /\ secret \in Secrets
    /\ round = Off
    /\ GuessOff
    /\ rects = Off /\ word = Off /\ big = Off /\ reads = Off /\ line = Off

\* guessing_game reads a line and runs one iteration; on a win it returns
\* and main draws the secret number of its own loop.
PlayV2(buf) ==
    /\ phase = "v2"
    /\ LET it == V2Iteration(buf, secret)
       IN  /\ round' = Round("v2", buf, secret, it)
           /\ CASE it.exit = "break" -> phase' = "v1" /\ secret' \in Secrets
                [] it.exit = "continue" -> phase' = "v2" /\ secret' = secret
                [] OTHER -> phase' = "aborted" /\ secret' = secret
    /\ UNCHANGED <<guessVars, fnVars>>

\* The loop of main reads a line and runs one iteration; on a win main ends.
PlayV1(buf) ==
    /\ phase = "v1"
    /\ LET it == V1Iteration(buf, secret)
       IN  /\ round' = Round("v1", buf, secret, it)
           /\ phase' = IF it.exit = "break" THEN "done" ELSE "v1"
    /\ UNCHANGED <<secret, guessVars, fnVars>>

\* read_line returns Err: .expect("Failed to read line") panics.
StdinFails ==
    /\ phase \in {"v1", "v2"}
    /\ round' = Round(phase, <<>>, secret,
                      Iteration(<<Println("Please input your guess.", <<>>)>>, <<>>, "panic"))
    /\ phase' = "aborted"
    /\ UNCHANGED <<secret, guessVars, fnVars>>

GameNext ==
    \/ \E buf \in StdinLines : PlayV2(buf)
    \/ \E buf \in StdinLines : PlayV1(buf)
    \/ StdinFails

SpecGame == GameInit /\ [][GameNext]_vars

\* ----------------------------------------------------------------- claims
\* The number an iteration of the first version parsed from what it read.
ParsedV1 == ParseU32(Trim(round.buf))
ParsedV2 == ParseI32(Trim(round.buf))
Played(version) == round # Off /\ round.version = version /\ round.exit # "panic"

\* C11: in the loop of main a guess is compared with the secret number only
\* when 1 <= guess <= 100; a parsed number outside that range prints the
\* range message and goes to the next iteration, without printing the guess
\* and without comparing it.
C11_V1ComparesOnlyInRange ==
    Played("v1") =>
        /\ round.compared # <<>> =>
              (ParsedV1.tag = "Ok" /\ round.compared = <<ParsedV1.val>>
               /\ InRange(ParsedV1.val))
        /\ (ParsedV1.tag = "Ok" /\ ~InRange(ParsedV1.val)) =>
              /\ round.printed = <<Println("Please input your guess.", <<>>),
                                   Println("The secret number will be between 1 and 100.", <<>>)>>
              /\ round.compared = <<>>
              /\ round.exit = "continue"
              /\ phase = "v1"

\* The first version read "101" and printed the range message only.
C11_Witness ==
    /\ Played("v1")
    /\ round.buf = <<"1", "0", "1", "\n">>
    /\ Len(round.printed) = 2
    /\ round.compared = <<>>
    /\ phase = "v1"

\* C12: in guessing_game (V2) an input that parses to an integer outside
\* 1..100 prints the error of Guess::new and prompts again; an input that
\* does not parse prompts again and prints no error; in both cases the
\* input is not compared with the secret and the game goes on.
C12_V2OutOfRangeVersusUnparsed ==
    Played("v2") =>
        /\ (ParsedV2.tag = "Ok" /\ ~InRange(ParsedV2.val)) =>
              /\ round.printed = <<Println("Please input your guess.", <<>>),
                                   Println("{}", <<"Guess must be between 1 and 100.">>)>>
              /\ round.compared = <<>>
              /\ round.exit = "continue"
              /\ phase = "v2"
        /\ ParsedV2.tag = "Err" =>
              /\ round.printed = <<Println("Please input your guess.", <<>>)>>
              /\ round.compared = <<>>
              /\ round.exit = "continue"
              /\ phase = "v2"

\* V2 read "-1", a number below the range, showed the error and goes on.
C12_Witness ==
    /\ Played("v2")
    /\ round.buf = <<"-", "1", "\n">>
    /\ Len(round.printed) = 2
    /\ round.printed[2].args = <<"Guess must be between 1 and 100.">>
    /\ phase = "v2"

\* ========================================================= methods: Rectangle
\* struct Rectangle { width: u32, height: u32 } and its methods.  The
\* fields are numbers below 2^31; a product of two of them is computed on
\* bytes, as the 32-bit multiplication does, since it can pass 2^32.

\* The field values tried: 0, the dimensions of the rectangles of main and
\* of the tests, and 2^16, whose square is 2^32.
RectDims == {0, 10, 30, 40, 45, 50, 60, 65536}

Rectangle(w, h) == [width |-> w, height |-> h]
Rectangles == {Rectangle(w, h) : w, h \in RectDims}

\* One byte holds 0..255.
ByteBase == 256

\* Byte i of n, byte 0 the least significant.
ByteOf(n, i) == (n \div ByteBase ^ i) % ByteBase

\* Column k of the long multiplication of two 4-byte numbers.
MulColumn(a, b, k) ==
    LET term(i) == IF k - i \in 0..3 THEN ByteOf(a, i) * ByteOf(b, k - i) ELSE 0
    IN  term(0) + term(1) + term(2) + term(3)

\* Bytes k..7 of the 64-bit product a * b, least significant first.
RECURSIVE MulBytes(_, _, _, _)
MulBytes(a, b, k, carry) ==
    IF k = 8 THEN <<>>
    ELSE LET t == MulColumn(a, b, k) + carry
         IN  <<t % ByteBase>> \o MulBytes(a, b, k + 1, t \div ByteBase)

\* u32 * u32: the low four bytes of the product, and whether the product
\* passed 32 bits.
U32Mul(a, b) ==
    LET p == MulBytes(a, b, 0, 0)
    IN  [low |-> SubSeq(p, 1, 4), overflow |-> SubSeq(p, 5, 8) # <<0, 0, 0, 0>>]

\* Rectangle::area: self.width * self.height in u32.  With overflow checks
\* (a debug build) a product that passes 32 bits panics, without them (a
\* release build) it wraps.  The u32 returned is given by its four bytes.
Area(self, overflowChecks) ==
    LET m == U32Mul(self.width, self.height)
    IN  IF m.overflow /\ overflowChecks
        THEN [tag |-> "Panic", val |-> <<>>]
        ELSE [tag |-> "Ok", val |-> m.low]

\* can_hold with `||` for `&&`
CanHoldEither(self, other_rect) ==
    self.width > other_rect.width \/ self.height > other_rect.height

\* Rectangle::can_hold
CanHold(self, other_rect) ==
    self.width > other_rect.width /\ self.height > other_rect.height

\* the method width testing the wrong field
WidthOfHeight(self) == self.height > 0

\* Rectangle::width (the method, not the field)
Width(self) == self.width > 0

\* main has built its rectangles; the build decides the overflow checks.
RectInit ==
    /\ rects \in [self : Rectangles, other : Rectangles,
                  overflowChecks : BOOLEAN, out : {<<>>}]
    /\ GuessOff /\ GameOff
    /\ word = Off /\ big = Off /\ reads = Off /\ line = Off

\* A method returned ret.
RectOut(method, ret) == [rects EXCEPT !.out = <<[method |-> method, ret |-> ret]>>]

CallArea ==
    /\ rects' = RectOut("area", Area(rects.self, rects.overflowChecks))
    /\ UNCHANGED <<guessVars, gameVars, word, big, reads, line>>

CallCanHold ==
    /\ rects' = RectOut("can_hold", CanHold(rects.self, rects.other))
    /\ UNCHANGED <<guessVars, gameVars, word, big, reads, line>>

CallWidth ==
    /\ rects' = RectOut("width", Width(rects.self))
    /\ UNCHANGED <<guessVars, gameVars, word, big, reads, line>>

RectNext == CallArea \/ CallCanHold \/ CallWidth

SpecRect == RectInit /\ [][RectNext]_vars

\* ----------------------------------------------------------------- claims
Returned1(method) == rects.out # <<>> /\ rects.out[1].method = method

\* C13: a.can_hold(b) is true exactly when a.width > b.width and
\* a.height > b.height, and so false as soon as b is wider or taller.
C13_CanHoldIffStrictlyLarger ==
    Returned1("can_hold") =>
        /\ rects.out[1].ret \in BOOLEAN
        /\ rects.out[1].ret =
              (rects.self.width > rects.other.width /\ rects.self.height > rects.other.height)
        /\ (rects.other.width > rects.self.width \/ rects.other.height > rects.self.height)
              => rects.out[1].ret = FALSE

\* 30x50 was asked whether it holds 60x45, which is wider but not taller,
\* and said no.
C13_Witness ==
    /\ Returned1("can_hold")
    /\ rects.self = [width |-> 30, height |-> 50]
    /\ rects.other = [width |-> 60, height |-> 45]
    /\ rects.out[1].ret = FALSE

\* C14: area() returns the mathematical product width * height, also when
\* the product does not fit in 32 bits.
C14_AreaIsProduct ==
    Returned1("area") =>
        /\ rects.out[1].ret.tag = "Ok"
        /\ rects.out[1].ret.val \o <<0, 0, 0, 0>>
              = MulBytes(rects.self.width, rects.self.height, 0, 0)

\* C15: width() returns true exactly when the field width is greater than
\* 0, whatever the height.
C15_WidthIffPositive ==
    Returned1("width") =>
        /\ rects.out[1].ret = (rects.self.width > 0)
        /\ \A h \in RectDims :
              Width([rects.self EXCEPT !.height = h]) = rects.out[1].ret

\* A rectangle of width 0 and height 10 answered false.
C15_Witness ==
    /\ Returned1("width")
    /\ rects.self = [width |-> 0, height |-> 10]
    /\ rects.out[1].ret = FALSE

\* ========================================================== slices: first_word
\* ------------------------------------------------------------------ bounds
\* Longest string given to first_word, in characters.
MaxWord == 4

\* The characters of the strings: the space, two letters and one character
\* of two bytes ("eacute" stands for U+00E9).
WordChars == {" ", "a", "b", "eacute"}

\* The UTF-8 bytes of a character.
Utf8(ch) ==
    CASE ch = " " -> <<32>>
      [] ch = "a" -> <<97>>
      [] ch = "b" -> <<98>>
      [] ch = "eacute" -> <<195, 169>>

\* s.as_bytes(): the bytes of all characters in order.
RECURSIVE AsBytes(_)
AsBytes(str) == IF str = <<>> THEN <<>> ELSE Utf8(Head(str)) \o AsBytes(Tail(str))

\* b' '
SpaceByte == 32

\* A byte that starts a character: not a continuation byte 10xxxxxx.
StartsChar(byte) == byte < 128 \/ byte >= 192

\* &s[..i]: the first i bytes; slicing inside a character panics.
SliceTo(bytes, i) ==
    IF i = Len(bytes) \/ StartsChar(bytes[i + 1])
    THEN [tag |-> "Ok", val |-> SubSeq(bytes, 1, i)]
    ELSE [tag |-> "Panic", val |-> <<>>]

\* The loop of first_word from byte index i (0-based) on: the first space
\* byte ends it.
RECURSIVE FirstWordFrom(_, _)
FirstWordFrom(bytes, i) ==
    IF i = Len(bytes) THEN SliceTo(bytes, Len(bytes))
    ELSE IF bytes[i + 1] = SpaceByte THEN SliceTo(bytes, i)
    ELSE FirstWordFrom(bytes, i + 1)

\* first_word returning &s[..=i]: the space included
FirstWordInclusive(str) ==
    LET bytes == AsBytes(str)
        spaces == {i \in 1..Len(bytes) : bytes[i] = SpaceByte}
    IN  IF spaces = {} THEN SliceTo(bytes, Len(bytes))
        ELSE SliceTo(bytes, CHOOSE i \in spaces : \A j \in spaces : i <= j)

\* first_word(s)
FirstWord(str) == FirstWordFrom(AsBytes(str), 0)

WordInit ==
    /\ word \in [s : StringsUpTo(WordChars, MaxWord), out : {<<>>}]
    /\ GuessOff /\ GameOff
    /\ rects = Off /\ big = Off /\ reads = Off /\ line = Off

CallFirstWord ==
    /\ word.out = <<>>
    /\ word' = [word EXCEPT !.out = <<FirstWord(word.s)>>]
    /\ UNCHANGED <<guessVars, gameVars, rects, big, reads, line>>

WordNext == CallFirstWord

SpecWord == WordInit /\ [][WordNext]_vars

\* ----------------------------------------------------------------- claims
\* The characters of str before its first space; all of str if it has none.
BeforeFirstSpace(str) ==
    LET spaces == {i \in 1..Len(str) : str[i] = " "}
    IN  IF spaces = {} THEN str
        ELSE SubSeq(str, 1, (CHOOSE i \in spaces : \A j \in spaces : i <= j) - 1)

\* C16: first_word(s) returns the prefix of s that ends just before the
\* first space; if s has no space it returns all of s.
C16_FirstWordIsPrefixBeforeSpace ==
    word.out # <<>> =>
        /\ word.out[1].tag = "Ok"
        /\ word.out[1].val = AsBytes(BeforeFirstSpace(word.s))
        /\ (\A i \in 1..Len(word.s) : word.s[i] # " ") => word.out[1].val = AsBytes(word.s)

\* A string with a two-byte character before the first of two spaces gave
\* the bytes before that space.
C16_Witness ==
    /\ word.s = <<"eacute", " ", "a", " ">>
    /\ word.out = <<[tag |-> "Ok", val |-> <<195, 169>>]>>

\* =========================================================== generics: largest
\* ------------------------------------------------------------------ bounds
\* Longest list given to a largest function.
MaxList == 3

\* An f64: a number or NaN.
F64(n) == [nan |-> FALSE, num |-> n]
NaN == [nan |-> TRUE, num |-> 0]

\* The elements tried, by element type.  i32 and char are the types main
\* uses; f64 is a type the bound T: PartialOrd admits and whose order is
\* partial.
Elements(ty) ==
    CASE ty = "i32" -> {I32Min, -1, 34, 100}
      [] ty = "char" -> {"a", "m", "q", "y"}
      [] ty = "f64" -> {NaN, F64(-1), F64(1), F64(2)}

\* The scalar value of a char, which orders chars.
CharCode(ch) ==
    CASE ch = "a" -> 97 [] ch = "m" -> 109 [] ch = "q" -> 113 [] ch = "y" -> 121

\* PartialOrd::gt, the `>` of the loop, for each element type.
Gt(ty, a, b) ==
    CASE ty = "i32" -> a > b
      [] ty = "char" -> CharCode(a) > CharCode(b)
      [] ty = "f64" -> ~a.nan /\ ~b.nan /\ a.num > b.num

\* the loop with `<` for `>`
RECURSIVE LargestLoopLess(_, _, _, _)
LargestLoopLess(ty, list, i, best) ==
    IF i > Len(list) THEN best
    ELSE LargestLoopLess(ty, list, i + 1, IF Gt(ty, list[best], list[i]) THEN i ELSE best)

\* `for item in list { if item > largest { largest = item; } }` from
\* element i on; best is the index `largest` refers to.
RECURSIVE LargestLoop(_, _, _, _)
LargestLoop(ty, list, i, best) ==
    IF i > Len(list) THEN best
    ELSE LargestLoop(ty, list, i + 1, IF Gt(ty, list[i], list[best]) THEN i ELSE best)

\* The body all four functions share: &list[0] panics on an empty list;
\* the reference returned is given by the index it points at.
LargestBody(ty, list) ==
    IF list = <<>> THEN [tag |-> "Panic", idx |-> 0]
    ELSE [tag |-> "Ok", idx |-> LargestLoop(ty, list, 1, 1)]

\* fn largest(list: &[i32]) -> &i32
Largest(list) == LargestBody("i32", list)
\* fn largest_i32(list: &[i32]) -> &i32
LargestI32(list) == LargestBody("i32", list)
\* fn largest_char(list: &[char]) -> &char
LargestChar(list) == LargestBody("char", list)
\* fn largest<T: std::cmp::PartialOrd>(list: &[T]) -> &T, at type ty
LargestGeneric(ty, list) == LargestBody(ty, list)

\* The functions and the element types each can be called at.
LargestCalls ==
    {<<"largest", "i32">>, <<"largest_i32", "i32">>, <<"largest_char", "char">>,
     <<"largest<T>", "i32">>, <<"largest<T>", "char">>, <<"largest<T>", "f64">>}

BigInit ==
    /\ \E call \in LargestCalls :
          \E list \in StringsUpTo(Elements(call[2]), MaxList) :
              big = [fn |-> call[1], ty |-> call[2], list |-> list, out |-> <<>>]
    /\ GuessOff /\ GameOff
    /\ rects = Off /\ word = Off /\ reads = Off /\ line = Off

CallLargest ==
    /\ big.fn = "largest" /\ big.out = <<>>
    /\ big' = [big EXCEPT !.out = <<Largest(big.list)>>]
    /\ UNCHANGED <<guessVars, gameVars, rects, word, reads, line>>

CallLargestI32 ==
    /\ big.fn = "largest_i32" /\ big.out = <<>>
    /\ big' = [big EXCEPT !.out = <<LargestI32(big.list)>>]
    /\ UNCHANGED <<guessVars, gameVars, rects, word, reads, line>>

CallLargestChar ==
    /\ big.fn = "largest_char" /\ big.out = <<>>
    /\ big' = [big EXCEPT !.out = <<LargestChar(big.list)>>]
    /\ UNCHANGED <<guessVars, gameVars, rects, word, reads, line>>

CallLargestGeneric ==
    /\ big.fn = "largest<T>" /\ big.out = <<>>
    /\ big' = [big EXCEPT !.out = <<LargestGeneric(big.ty, big.list)>>]
    /\ UNCHANGED <<guessVars, gameVars, rects, word, reads, line>>

BigNext == CallLargest \/ CallLargestI32 \/ CallLargestChar \/ CallLargestGeneric

SpecBig == BigInit /\ [][BigNext]_vars

\* ----------------------------------------------------------------- claims
\* a >= b (PartialOrd::ge) for each element type.
Ge(ty, a, b) ==
    CASE ty = "i32" -> a >= b
      [] ty = "char" -> CharCode(a) >= CharCode(b)
      [] ty = "f64" -> ~a.nan /\ ~b.nan /\ a.num >= b.num

\* A largest function returned for a non-empty list.
LargestReturned == big.out # <<>> /\ big.list # <<>>

\* The element the returned reference points at.
LargestElement == big.list[big.out[1].idx]

ReturnsElement == big.out[1].tag = "Ok" /\ big.out[1].idx \in 1..Len(big.list)

\* C17 as stated: each of the four functions, the generic one included,
\* returns an element that is >= every element of the list.
C17_LargestIsGreatest ==
    LargestReturned =>
        /\ ReturnsElement
        /\ \A j \in 1..Len(big.list) : Ge(big.ty, LargestElement, big.list[j])

\* C17: for every non-empty list each function returns a reference to an
\* element of the list.  For largest, largest_i32 and largest_char, and for
\* the generic largest at i32 and char, that element is >= every element.
\* For the generic largest at any T: PartialOrd no element of the list is
\* greater than it, and it is >= every element if it is comparable with
\* every element; with incomparable elements (f64 NaN) it need not be.
C17_LargestIsMaximal ==
    LargestReturned =>
        /\ ReturnsElement
        /\ big.ty \in {"i32", "char"} =>
              \A j \in 1..Len(big.list) : Ge(big.ty, LargestElement, big.list[j])
        /\ \A j \in 1..Len(big.list) : ~Gt(big.ty, big.list[j], LargestElement)
        /\ (\A j \in 1..Len(big.list) :
                Ge(big.ty, LargestElement, big.list[j]) \/ Ge(big.ty, big.list[j], LargestElement))
              => \A j \in 1..Len(big.list) : Ge(big.ty, LargestElement, big.list[j])

\* The generic largest was given [NaN, 2.0, 1.0] and returned the NaN,
\* which is not >= 2.0.
C17_Witness ==
    /\ LargestReturned
    /\ big.fn = "largest<T>" /\ big.ty = "f64"
    /\ big.list = <<NaN, F64(2), F64(1)>>
    /\ big.out[1] = [tag |-> "Ok", idx |-> 1]

\* ================================================ errors: read_username_from_file
\* An io::Error, by its kind.
IoError(kind) == [kind |-> kind]

\* What File::open("hello.txt") can return: the file, or an error.
OpenOutcomes == {Ok("hello.txt"), Err(IoError("NotFound")), Err(IoError("PermissionDenied"))}

\* What the file holds.
FileContents == {<<>>, <<"b", "o", "b">>, <<"a", "l", "i", "c", "e">>}

\* What read_to_string can do: append the contents and return their
\* length, or append what it had read and return an error.
ReadOutcomes ==
    {[res |-> Ok(Len(c)), appended |-> c] : c \in FileContents}
        \cup {[res |-> Err(IoError("InvalidData")), appended |-> <<>>],
              [res |-> Err(IoError("IsADirectory")), appended |-> <<"b">>]}

\* The three implementations.
Readers == {"_read_username_from_file", "_read_username_from_file1", "_read_username_from_file2"}

\* A call that has not begun: no system call made, nothing returned.
ReaderStart == [pc |-> "start", file |-> <<>>, username |-> <<>>, calls |-> <<>>, out |-> <<>>]

\* impl From<T> for T, the conversion `?` applies to an io::Error in a
\* function that returns io::Error.
FromIoError(e) == e

\* `?` that replaces the error
QuestionOther(res) ==
    IF res.tag = "Ok" THEN [ret |-> <<>>, val |-> res.ok]
    ELSE [ret |-> <<Err(IoErrorOther("read failed"))>>, val |-> <<>>]

\* The `?` operator on a Result: the Ok value, or an early return of the
\* converted error.
Question(res) ==
    IF res.tag = "Ok" THEN [ret |-> <<>>, val |-> res.ok]
    ELSE [ret |-> <<Err(FromIoError(res.err[1]))>>, val |-> <<>>]

\* File::open("hello.txt")
FileOpen == reads.open

\* file.read_to_string(&mut buf): the result and the buffer afterwards.
ReadToString(buf) == [res |-> reads.read.res, buf |-> buf \o reads.read.appended]

\* The state of a call that made `call` and went on, or returned.
Went(run, call, pcNext) == [run EXCEPT !.pc = pcNext, !.calls = @ \o <<call>>]
Returned18(run, call, result) ==
    [run EXCEPT !.pc = "done", !.calls = @ \o <<call>>, !.out = <<result>>]

ReadsInit ==
    /\ reads \in [open : OpenOutcomes, read : ReadOutcomes, run : [Readers -> {ReaderStart}]]
    /\ GuessOff /\ GameOff
    /\ rects = Off /\ word = Off /\ big = Off /\ line = Off

ReadsIdle == UNCHANGED <<guessVars, gameVars, rects, word, big, line>>

\* _read_username_from_file: File::open and the match on its result.
ReadUsernameOpen ==
    LET f == "_read_username_from_file"
        run == reads.run[f]
        username_file_result == FileOpen
    IN  /\ run.pc = "start"
        /\ reads' = [reads EXCEPT !.run[f] =
              IF username_file_result.tag = "Ok"
              THEN [Went(run, "open", "opened") EXCEPT !.file = username_file_result.ok]
              ELSE Returned18(run, "open", Err(username_file_result.err[1]))]
        /\ ReadsIdle

\* _read_username_from_file: String::new, read_to_string and the match.
ReadUsernameRead ==
    LET f == "_read_username_from_file"
        run == reads.run[f]
        r == ReadToString(<<>>)
    IN  /\ run.pc = "opened"
        /\ reads' = [reads EXCEPT !.run[f] =
              [Returned18(run, "read_to_string",
                          IF r.res.tag = "Ok" THEN Ok(r.buf) ELSE Err(r.res.err[1]))
                  EXCEPT !.username = r.buf]]
        /\ ReadsIdle

\* _read_username_from_file1: let mut username_file = File::open(..)?;
ReadUsername1Open ==
    LET f == "_read_username_from_file1"
        run == reads.run[f]
        q == Question(FileOpen)
    IN  /\ run.pc = "start"
        /\ reads' = [reads EXCEPT !.run[f] =
              IF q.ret = <<>>
              THEN [Went(run, "open", "opened") EXCEPT !.file = q.val]
              ELSE Returned18(run, "open", q.ret[1])]
        /\ ReadsIdle

\* _read_username_from_file1: read_to_string(&mut username)?; Ok(username)
ReadUsername1Read ==
    LET f == "_read_username_from_file1"
        run == reads.run[f]
        r == ReadToString(<<>>)
        q == Question(r.res)
    IN  /\ run.pc = "opened"
        /\ reads' = [reads EXCEPT !.run[f] =
              [Returned18(run, "read_to_string",
                          IF q.ret = <<>> THEN Ok(r.buf) ELSE q.ret[1])
                  EXCEPT !.username = r.buf]]
        /\ ReadsIdle

\* _read_username_from_file2: String::new, then File::open(..)? of the chain.
ReadUsername2Open ==
    LET f == "_read_username_from_file2"
        run == reads.run[f]
        q == Question(FileOpen)
    IN  /\ run.pc = "start"
        /\ reads' = [reads EXCEPT !.run[f] =
              IF q.ret = <<>>
              THEN [Went(run, "open", "opened") EXCEPT !.file = q.val]
              ELSE Returned18(run, "open", q.ret[1])]
        /\ ReadsIdle

\* _read_username_from_file2: .read_to_string(&mut username)? of the chain,
\* then Ok(username).
ReadUsername2Read ==
    LET f == "_read_username_from_file2"
        run == reads.run[f]
        r == ReadToString(run.username)
        q == Question(r.res)
    IN  /\ run.pc = "opened"
        /\ reads' = [reads EXCEPT !.run[f] =
              [Returned18(run, "read_to_string",
                          IF q.ret = <<>> THEN Ok(r.buf) ELSE q.ret[1])
                  EXCEPT !.username = r.buf]]
        /\ ReadsIdle

ReadsNext ==
    \/ ReadUsernameOpen \/ ReadUsernameRead
    \/ ReadUsername1Open \/ ReadUsername1Read
    \/ ReadUsername2Open \/ ReadUsername2Read

SpecReads == ReadsInit /\ [][ReadsNext]_vars

\* ----------------------------------------------------------------- claims
\* What the claim says a finished call returned and which calls it made.
ExpectedRead ==
    IF reads.open.tag = "Err"
    THEN [out |-> reads.open, calls |-> <<"open">>]
    ELSE [out |-> IF reads.read.res.tag = "Ok" THEN Ok(reads.read.appended)
                  ELSE reads.read.res,
          calls |-> <<"open", "read_to_string">>]

ReaderDone(f) == reads.run[f].pc = "done"

\* C18: the three implementations behave alike: each returns Ok(contents)
\* when open and read succeed, the open error without attempting the read
\* when open fails, and the read error when the read fails.
C18_ReadersEquivalent ==
    /\ \A f \in Readers : ReaderDone(f) =>
          /\ reads.run[f].out = <<ExpectedRead.out>>
          /\ reads.run[f].calls = ExpectedRead.calls
    /\ \A f, g \in Readers : ReaderDone(f) /\ ReaderDone(g) =>
          /\ reads.run[f].out = reads.run[g].out
          /\ reads.run[f].calls = reads.run[g].calls

\* All three returned the NotFound error of open and none of them read.
C18_Witness ==
    /\ \A f \in Readers : ReaderDone(f)
    /\ reads.open = Err(IoError("NotFound"))
    /\ \A f \in Readers :
          reads.run[f].out = <<Err(IoError("NotFound"))>> /\ reads.run[f].calls = <<"open">>

\* ================================================ errors: last_char_of_first_line
\* ------------------------------------------------------------------ bounds
\* Longest text given to last_char_of_first_line, in chars.
MaxText == 4

\* The chars a text is made of.
TextChars == {"h", "i", "\n", "\r"}

\* Option<T>
Some(v) == [tag |-> "Some", val |-> <<v>>]
None == [tag |-> "None", val |-> <<>>]

\* str::split_inclusive('\n'): the pieces of the text, each ending with
\* its "\n", the last one possibly without.
RECURSIVE SplitInclusive(_)
SplitInclusive(text) ==
    IF text = <<>> THEN <<>>
    ELSE LET ends == {i \in 1..Len(text) : text[i] = "\n"} \cup {Len(text)}
             k == CHOOSE i \in ends : \A j \in ends : i <= j
         IN  <<SubSeq(text, 1, k)>> \o SplitInclusive(SubSeq(text, k + 1, Len(text)))

\* What str::lines makes of a piece: a final "\n" is stripped, and then a
\* final "\r"; without the "\n" the piece is the line.
LineOf(piece) ==
    IF piece = <<>> \/ piece[Len(piece)] # "\n" THEN piece
    ELSE LET line1 == SubSeq(piece, 1, Len(piece) - 1)
         IN  IF line1 = <<>> \/ line1[Len(line1)] # "\r" THEN line1
             ELSE SubSeq(line1, 1, Len(line1) - 1)

\* str::lines, as the sequence of items the iterator yields.
Lines(text) ==
    LET pieces == SplitInclusive(text)
    IN  [i \in 1..Len(pieces) |-> LineOf(pieces[i])]

\* str::chars, as the sequence of items the iterator yields.
Chars(str) == str

\* Iterator::next of a fresh iterator and Iterator::last.
IterNext(items) == IF items = <<>> THEN None ELSE Some(items[1])
IterLast(items) == IF items = <<>> THEN None ELSE Some(items[Len(items)])

\* the last char of the whole text
LastCharOfText(text) == IterLast(Chars(text))

\* text.lines().next()?.chars().last(): `?` returns None early.
LastCharOfFirstLine(text) ==
    LET first == IterNext(Lines(text))
    IN  IF first.tag = "None" THEN None
        ELSE IterLast(Chars(first.val[1]))

Texts == StringsUpTo(TextChars, MaxText)

LineInit ==
    /\ line \in [text : Texts, out : {<<>>}]
    /\ GuessOff /\ GameOff
    /\ rects = Off /\ word = Off /\ big = Off /\ reads = Off

CallLastCharOfFirstLine ==
    /\ line.out = <<>>
    /\ line' = [line EXCEPT !.out = <<LastCharOfFirstLine(line.text)>>]
    /\ UNCHANGED <<guessVars, gameVars, rects, word, big, reads>>

LineNext == CallLastCharOfFirstLine

SpecLine == LineInit /\ [][LineNext]_vars

\* ----------------------------------------------------------------- claims
\* The first line of a text: what precedes its first "\n", less a "\r"
\* right before that "\n"; the whole text if it has no "\n".
FirstLineOf(text) ==
    LET nls == {i \in 1..Len(text) : text[i] = "\n"}
    IN  IF nls = {} THEN text
        ELSE LET n == CHOOSE i \in nls : \A j \in nls : i <= j
             IN  IF n > 1 /\ text[n - 1] = "\r" THEN SubSeq(text, 1, n - 2)
                 ELSE SubSeq(text, 1, n - 1)

\* C19: last_char_of_first_line returns None for the empty text, None when
\* the first line is empty, and otherwise Some of the last char of the
\* first line; texts with the same first line give the same result.
C19_LastCharOfFirstLine ==
    line.out # <<>> =>
        LET first == FirstLineOf(line.text)
        IN  /\ line.text = <<>> => line.out[1] = None
            /\ first = <<>> => line.out[1] = None
            /\ first # <<>> => line.out[1] = Some(first[Len(first)])
            /\ \A other \in Texts :
                  FirstLineOf(other) = first => LastCharOfFirstLine(other) = line.out[1]

\* "hi\nh" gave Some('i'), the last char of its first line, although the
\* text ends with 'h'.
C19_Witness ==
    /\ line.out # <<>>
    /\ line.text = <<"h", "i", "\n", "h">>
    /\ line.out[1] = Some("i")

====
